---- MODULE Spec2Model ----
\* Fitness-tracker users app: account creation (CreateUserSerializer), the
\* FitnessProfile entity with its derived fields, the field validators and the
\* relational rows (User, FitnessProfile) they are kept in.
\*
\* Dates are day numbers relative to the day the model starts on (day 0).
\* A BMI is held in hundredths (23.15 is 2315), a string as a tuple of
\* one-character strings.
EXTENDS Integers, Sequences, FiniteSets, TLC

\* ---------------------------------------------------------------- bounds
\* Days the clock may advance.
MaxTicks == 1
\* Size of the handle space get_random_string draws from (62^16 in the code).
NumHandles == 2
\* Identity rows ever allocated (the auto-increment primary key stops here).
MaxUsers == 2
\* Largest height and weight the pure-function sweep applies calculate_bmi to.
MaxHeight == 181
MaxWeight == 76

\* ------------------------------------------------------ program constants
DaysPerYear == 365
CmPerMetre == 100
MobileDigits == 10
MinValue == 1

Procs == {1, 2}
\* Ids of the identity rows the profile-persistence runs start with.
Owners == {1}
Handles == 1 .. NumHandles

\* Argument values: Python's None, True, False and the Ellipsis object (...).
None == "None"
True == "True"
False == "False"
Ellipsis == "Ellipsis"
NoUser == 0
NoHandle == 0

Digits == {"0", "1", "2", "3", "4", "5", "6", "7", "8", "9"}

\* Python truth value of a flag: None and False are false, True and the
\* Ellipsis object are true.
Truthy(v) == v \in {True, Ellipsis}

\* An update_fields argument: None, the Ellipsis object or a list of names.
Fields(names) == [is |-> "list", names |-> names]
NoFields == [is |-> None, names |-> {}]
EllipsisFields == [is |-> Ellipsis, names |-> {}]

\* Its truth value: a non-empty list and the Ellipsis object are true.
TruthyFields(uf) == uf.is = Ellipsis \/ (uf.is = "list" /\ uf.names # {})

\* ---------------------------------------------------------- validators.py
\* validate_date_of_birth comparing with > where the code has >=.
validate_date_of_birth_strict(value, now) ==
    IF value > now THEN {"date_of_birth"} ELSE {}

\* validate_date_of_birth: the keys of the error it raises, {} when it returns.
validate_date_of_birth(value, now) ==
    IF value >= now THEN {"date_of_birth"} ELSE {}

\* MinValueValidator(1) on height and weight.
MinValueValidator(field, value) ==
    IF value < MinValue THEN {field} ELSE {}

\* RegexValidator(r'^\d{10}$'): ten digits, and Python's $ also matches
\* before one trailing newline.
RegexMatches(s) ==
    \/ Len(s) = MobileDigits /\ \A i \in 1 .. Len(s) : s[i] \in Digits
    \/ /\ Len(s) = MobileDigits + 1
       /\ s[Len(s)] = "\n"
       /\ \A i \in 1 .. MobileDigits : s[i] \in Digits

\* MobileNumberField: the regex validator and max_length = 10.
MobileNumberField(s) ==
    IF RegexMatches(s) /\ Len(s) <= MobileDigits THEN {} ELSE {"contact_number"}

\* The field rules without the one on contact_number.
FieldErrorsNoContact(payload, now) ==
    validate_date_of_birth(payload.date_of_birth, now)
        \cup MinValueValidator("height", payload.height)
        \cup MinValueValidator("weight", payload.weight)

\* The field rules of the nested FitnessProfileSerializer, run at `now`.
FieldErrors(payload, now) ==
    validate_date_of_birth(payload.date_of_birth, now)
        \cup MinValueValidator("height", payload.height)
        \cup MinValueValidator("weight", payload.weight)
        \cup MobileNumberField(payload.contact_number)

\* -------------------------------------------------- FitnessProfile methods
\* calculate_age with the operands of the difference swapped.
calculate_age_swapped(date_of_birth, now) ==
    (date_of_birth - now) \div DaysPerYear

\* calculate_age: delta.days // 365 (Python floor division).
calculate_age(date_of_birth, now) ==
    (now - date_of_birth) \div DaysPerYear

\* Heights whose binary (height / 100) ** 2 lies above the decimal square, so
\* that a quotient on an exact half falls just below it (80, 112 and 160 are
\* the ones up to 300 cm).
FloatLowHeights == {80, 112, 160}

\* round(x, 2) of the binary quotient weight / (height / 100) ** 2, in
\* hundredths: the nearest hundredth; on an exact half the binary quotient
\* decides, which is half-to-even unless the quotient fell below the half.
RoundHundredths(height, weight) ==
    LET num == weight * CmPerMetre * CmPerMetre * 100
        den == height * height
        lo  == num \div den
        rem == num % den
    IN  IF 2 * rem < den THEN lo
        ELSE IF 2 * rem > den THEN lo + 1
        ELSE IF height \in FloatLowHeights THEN lo
        ELSE IF lo % 2 = 0 THEN lo ELSE lo + 1

\* calculate_bmi truncating instead of rounding.
calculate_bmi_trunc(height, weight) ==
    (weight * CmPerMetre * CmPerMetre * 100) \div (height * height)

\* calculate_bmi: defined for height # 0 (height = 0 raises ZeroDivisionError,
\* which save lets through).
calculate_bmi(height, weight) ==
    RoundHundredths(height, weight)

\* ------------------------------------------------------------ input sets
\* contact_number values a request may carry: the accepted one, too short,
\* too long, and ten characters that are not all digits.
GoodContact == <<"9", "8", "7", "6", "5", "4", "3", "2", "1", "0">>
ShortContact == <<"1", "2", "3", "4", "5">>
LongContact == <<"1", "2", "3", "4", "5", "6", "7", "8", "9", "0", "1">>
AlphaContact == <<"1", "2", "3", "4", "5", "a", "b", "c", "d", "e">>

\* validated_data["fitness_profile"] of a request. has_user: the nested
\* serializer has fields = "__all__", so the payload may carry a "user" key.
Payload(has_user, dob, contact, height, weight) ==
    [has_user |-> has_user, date_of_birth |-> dob, age |-> <<40>>,
     contact_number |-> contact, height |-> height, weight |-> weight,
     bmi |-> <<9999>>]

RequestPayloads ==
    { Payload(hu, -364, GoodContact, 180, 75) : hu \in BOOLEAN }
        \cup { Payload(FALSE, d, GoodContact, 180, 75) : d \in {0, 1} }
        \cup { Payload(FALSE, -364, GoodContact, h, 75) : h \in {0, -5} }
        \cup { Payload(FALSE, -364, GoodContact, 180, 0) }
        \cup { Payload(FALSE, -364, c, 180, 75) :
                 c \in {ShortContact, LongContact, AlphaContact} }
        \cup { Payload(TRUE, 1, AlphaContact, 0, 0) }

NoData == [has_user |-> FALSE]

\* Arguments of FitnessProfile.save. Every parameter defaults to the
\* Ellipsis object; QuerySet.create passes force_insert = True and the
\* database alias; other callers pass what they like.
SaveCall(fi, fu, using, uf) ==
    [force_insert |-> fi, force_update |-> fu, using |-> using,
     update_fields |-> uf]

DefaultArgs == SaveCall(Ellipsis, Ellipsis, Ellipsis, EllipsisFields)
CreateArgs == SaveCall(True, Ellipsis, None, EllipsisFields)

SaveArgs ==
    { DefaultArgs, CreateArgs,
      SaveCall(True, False, None, NoFields),
      SaveCall(False, False, None, NoFields),
      SaveCall(False, True, None, NoFields),
      SaveCall(False, False, Ellipsis, NoFields),
      SaveCall(False, False, None, Fields({})),
      SaveCall(False, False, None, Fields({"height"})),
      SaveCall(False, False, None, Fields({"age", "bmi"})) }

\* Attribute values an ORM caller gives a FitnessProfile instance.
SaveDates == {-364, 1}
SaveHeights == {0, 80, 180}
SaveWeights == {75}
\* age and bmi as the caller left them: <<>> is None, <<v>> the value v.
Supplied == { [age |-> <<>>, bmi |-> <<>>], [age |-> <<40>>, bmi |-> <<9999>>] }

\* ------------------------------------------------------------------ state
VARIABLES
    today,      \* timezone.now().date()
    users,      \* User rows: [id, username]
    nextId,     \* next auto-increment primary key of User
    profiles,   \* FitnessProfile rows, one-to-one on user
    pc,         \* where each account-creation request stands
    data,       \* its nested profile payload
    username,   \* the handle generate_random_username last drew
    newUser,    \* the id of the User row it inserted
    result,     \* how it ended: "created" or the exception raised
    errors,     \* the keys of its validation error
    lastSave,   \* the last save() an ORM caller made: inputs, assigned values
    calc        \* the last application of a pure function

vars == <<today, users, nextId, profiles, pc, data, username, newUser,
          result, errors, lastSave, calc>>

reqVars == <<pc, data, username, newUser, result, errors>>

NoSave == [user |-> NoUser, date_of_birth |-> 0, height |-> 0, weight |-> 0,
           today |-> 0, age |-> <<>>, bmi |-> <<>>, outcome |-> "none",
           derived_written |-> FALSE, repeat |-> FALSE]
NoCalc == [fn |-> "none", height |-> 0, weight |-> 0, bmi |-> 0]

\* --------------------------------------------------------- relational rows
\* An insert with no uniqueness constraint on username.
InsertUserNoUnique(table, row) ==
    [ok |-> TRUE, table |-> table \cup {row}]

\* username is unique (AbstractUser): an insert of a taken username raises
\* IntegrityError and writes nothing.
InsertUser(table, row) ==
    IF \E u \in table : u.username = row.username
    THEN [ok |-> FALSE, table |-> table]
    ELSE [ok |-> TRUE, table |-> table \cup {row}]

\* objects.filter(username = h).exists()
UsernameExists(table, h) == \E u \in table : u.username = h

\* A deletion that leaves the profile rows alone.
CascadeNothing(table, id) == table

\* on_delete = CASCADE: the rows left when User `id` is deleted.
CascadeDelete(table, id) == { r \in table : r.user # id }

Columns == {"date_of_birth", "age", "contact_number", "height", "weight", "bmi"}

\* PositiveIntegerField: the column's CHECK (value >= 0).
ChecksHold(row) == row.age >= 0 /\ row.height >= 0 /\ row.weight >= 0

ProfileRow(obj) ==
    [user |-> obj.user, date_of_birth |-> obj.date_of_birth, age |-> obj.age,
     contact_number |-> obj.contact_number, height |-> obj.height,
     weight |-> obj.weight, bmi |-> obj.bmi]

\* INSERT of a profile row: the foreign key, the one-to-one uniqueness and
\* the column checks decide.
InsertProfile(table, knownUsers, row) ==
    IF /\ ChecksHold(row)
       /\ \E u \in knownUsers : u.id = row.user
       /\ ~ \E r \in table : r.user = row.user
    THEN [outcome |-> "saved", table |-> table \cup {row}]
    ELSE [outcome |-> "IntegrityError", table |-> table]

\* UPDATE ... SET <cols> of the instance's row.
UpdateProfile(table, row, cols) ==
    LET old == CHOOSE r \in table : r.user = row.user
        new == [f \in DOMAIN old |-> IF f \in cols THEN row[f] ELSE old[f]]
    IN  IF ChecksHold(new)
        THEN [outcome |-> "saved", table |-> (table \ {old}) \cup {new}]
        ELSE [outcome |-> "IntegrityError", table |-> table]

\* django.db.models.Model.save as FitnessProfile.save delegates to it.
ModelSave(table, knownUsers, obj, args) ==
    LET fi == Truthy(args.force_insert)
        fu == Truthy(args.force_update)
        uf == args.update_fields
        forced == fu \/ uf.is # None
        raise(e) == [outcome |-> e, table |-> table]
    IN  IF fi /\ (fu \/ TruthyFields(uf)) THEN raise("ValueError")
        ELSE IF uf.is = Ellipsis THEN raise("TypeError")
        ELSE IF uf.is = "list" /\ uf.names = {} THEN raise("returned")
        ELSE IF args.using = Ellipsis THEN raise("TypeError")
        ELSE IF ~obj.pk /\ forced THEN raise("ValueError")
        ELSE IF obj.pk /\ ~fi
        THEN IF \E r \in table : r.user = obj.user
             THEN UpdateProfile(table, ProfileRow(obj),
                                IF uf.is = None THEN Columns ELSE uf.names)
             ELSE IF forced THEN raise("DatabaseError")
             ELSE InsertProfile(table, knownUsers, ProfileRow(obj))
        ELSE InsertProfile(table, knownUsers, ProfileRow(obj))

\* FitnessProfile.save keeping an age and bmi the caller already set.
FitnessProfile_save_keep(table, knownUsers, inst, args, now) ==
    IF inst.height = 0
    THEN [outcome |-> "ZeroDivisionError", table |-> table,
          age |-> <<calculate_age(inst.date_of_birth, now)>>,
          bmi |-> inst.bmi]
    ELSE LET obj == [inst EXCEPT
                       !.age = IF inst.age = <<>>
                               THEN calculate_age(inst.date_of_birth, now)
                               ELSE inst.age[1],
                       !.bmi = IF inst.bmi = <<>>
                               THEN calculate_bmi(inst.height, inst.weight)
                               ELSE inst.bmi[1]]
             r == ModelSave(table, knownUsers, obj, args)
         IN  [outcome |-> r.outcome, table |-> r.table,
              age |-> <<obj.age>>, bmi |-> <<obj.bmi>>]

\* FitnessProfile.save: assign age, then bmi, then delegate. The result
\* carries the table afterwards and the age and bmi the instance then holds
\* (<<v>>, or <<>> for a bmi still None).
FitnessProfile_save(table, knownUsers, inst, args, now) ==
    IF inst.height = 0
    THEN [outcome |-> "ZeroDivisionError", table |-> table,
          age |-> <<calculate_age(inst.date_of_birth, now)>>,
          bmi |-> inst.bmi]
    ELSE LET obj == [inst EXCEPT
                       !.age = calculate_age(inst.date_of_birth, now),
                       !.bmi = calculate_bmi(inst.height, inst.weight)]
             r == ModelSave(table, knownUsers, obj, args)
         IN  [outcome |-> r.outcome, table |-> r.table,
              age |-> <<obj.age>>, bmi |-> <<obj.bmi>>]

\* The instance FitnessProfile(user = u, **fields) or one read from the table
\* (pk set) with attributes assigned.
Instance(u, pk, dob, height, weight, age, bmi) ==
    [user |-> u, pk |-> pk, date_of_birth |-> dob, age |-> age,
     contact_number |-> GoodContact, height |-> height, weight |-> weight,
     bmi |-> bmi]

\* ------------------------------------------------------------- actions
Init ==
    /\ today = 0
    /\ users = {}
    /\ nextId = 1
    /\ profiles = {}
    /\ pc = [p \in Procs |-> "idle"]
    /\ data = [p \in Procs |-> NoData]
    /\ username = [p \in Procs |-> NoHandle]
    /\ newUser = [p \in Procs |-> NoUser]
    /\ result = [p \in Procs |-> "none"]
    /\ errors = [p \in Procs |-> {}]
    /\ lastSave = NoSave
    /\ calc = NoCalc

\* A request arrives with its payload.
Submit(p, payload) ==
    /\ pc[p] = "idle"
    /\ pc' = [pc EXCEPT ![p] = "validate"]
    /\ data' = [data EXCEPT ![p] = payload]
    /\ UNCHANGED <<today, users, nextId, profiles, username, newUser, result,
                   errors, lastSave, calc>>

\* The serializer validates the nested payload; create runs only when no
\* field rule is violated.
Validate(p) ==
    /\ pc[p] = "validate"
    /\ LET errs == FieldErrors(data[p], today)
       IN  IF errs # {}
           THEN /\ pc' = [pc EXCEPT ![p] = "done"]
                /\ result' = [result EXCEPT ![p] = "ValidationError"]
                /\ errors' = [errors EXCEPT ![p] = errs]
           ELSE /\ pc' = [pc EXCEPT ![p] = "generate"]
                /\ UNCHANGED <<result, errors>>
    /\ UNCHANGED <<today, users, nextId, profiles, data, username, newUser,
                   lastSave, calc>>

\* One turn of generate_random_username's loop, limited to a single draw.
GenerateStepOnce(p, h) ==
    /\ pc[p] = "generate"
    /\ username' = [username EXCEPT ![p] = h]
    /\ IF UsernameExists(users, h)
       THEN /\ pc' = [pc EXCEPT ![p] = "done"]
            /\ result' = [result EXCEPT ![p] = "RuntimeError"]
       ELSE /\ pc' = [pc EXCEPT ![p] = "create_user"]
            /\ UNCHANGED result
    /\ UNCHANGED <<today, users, nextId, profiles, data, newUser, errors,
                   lastSave, calc>>

\* One turn of generate_random_username's loop: draw h, query, break when no
\* row has it.
GenerateStep(p, h) ==
    /\ pc[p] = "generate"
    /\ username' = [username EXCEPT ![p] = h]
    /\ pc' = [pc EXCEPT ![p] = IF UsernameExists(users, h)
                                THEN "generate" ELSE "create_user"]
    /\ UNCHANGED <<today, users, nextId, profiles, data, newUser, result,
                   errors, lastSave, calc>>

\* User.objects.create(username = random_username, ...)
CreateUser(p) ==
    /\ pc[p] = "create_user"
    /\ nextId <= MaxUsers
    /\ LET r == InsertUser(users, [id |-> nextId, username |-> username[p]])
       IN  IF r.ok
           THEN /\ users' = r.table
                /\ nextId' = nextId + 1
                /\ newUser' = [newUser EXCEPT ![p] = nextId]
                /\ pc' = [pc EXCEPT ![p] = "create_profile"]
                /\ UNCHANGED result
           ELSE /\ pc' = [pc EXCEPT ![p] = "done"]
                /\ result' = [result EXCEPT ![p] = "IntegrityError"]
                /\ UNCHANGED <<users, nextId, newUser>>
    /\ UNCHANGED <<today, profiles, data, username, errors, lastSave, calc>>

\* FitnessProfile.objects.create(user = user, **fitness_profile): a payload
\* with its own "user" key makes the call itself raise TypeError; otherwise
\* QuerySet.create builds the instance and saves it with force_insert = True.
CreateProfile(p) ==
    /\ pc[p] = "create_profile"
    /\ LET d == data[p]
           inst == [user |-> newUser[p], pk |-> FALSE,
                    date_of_birth |-> d.date_of_birth, age |-> d.age,
                    contact_number |-> d.contact_number, height |-> d.height,
                    weight |-> d.weight, bmi |-> d.bmi]
           r == FitnessProfile_save(profiles, users, inst, CreateArgs, today)
       IN  IF d.has_user
           THEN /\ result' = [result EXCEPT ![p] = "TypeError"]
                /\ UNCHANGED profiles
           ELSE /\ result' = [result EXCEPT ![p] =
                                IF r.outcome = "saved" THEN "created"
                                ELSE r.outcome]
                /\ profiles' = r.table
    /\ pc' = [pc EXCEPT ![p] = "done"]
    /\ UNCHANGED <<today, users, nextId, data, username, newUser, errors,
                   lastSave, calc>>

\* The response is out; the worker takes the next request.
Return(p) ==
    /\ pc[p] = "done"
    /\ pc' = [pc EXCEPT ![p] = "idle"]
    /\ data' = [data EXCEPT ![p] = NoData]
    /\ username' = [username EXCEPT ![p] = NoHandle]
    /\ newUser' = [newUser EXCEPT ![p] = NoUser]
    /\ result' = [result EXCEPT ![p] = "none"]
    /\ errors' = [errors EXCEPT ![p] = {}]
    /\ UNCHANGED <<today, users, nextId, profiles, lastSave, calc>>

\* User.delete(): the row goes, and what on_delete = CASCADE takes with it.
DeleteUser(u) ==
    /\ u \in users
    /\ users' = users \ {u}
    /\ profiles' = CascadeDelete(profiles, u.id)
    /\ UNCHANGED <<today, nextId, reqVars, lastSave, calc>>

\* The date changes.
Tick ==
    /\ today < MaxTicks
    /\ today' = today + 1
    /\ UNCHANGED <<users, nextId, profiles, reqVars, lastSave, calc>>

\* An ORM caller saves a FitnessProfile instance of user id u: a new one
\* (pk unset) or one read from the table, with its attributes as assigned.
SaveProfile(u, pk, dob, height, weight, age, bmi, args) ==
    /\ LET inst == Instance(u, pk, dob, height, weight, age, bmi)
           r == FitnessProfile_save(profiles, users, inst, args, today)
           uf == args.update_fields
       IN  /\ profiles' = r.table
           /\ lastSave' =
                 [user |-> u, date_of_birth |-> dob, height |-> height,
                  weight |-> weight, today |-> today, age |-> r.age,
                  bmi |-> r.bmi,
                  outcome |-> r.outcome,
                  derived_written |->
                      /\ r.outcome = "saved"
                      /\ uf.is = None \/ {"age", "bmi"} \subseteq uf.names,
                  repeat |->
                      /\ lastSave.derived_written
                      /\ lastSave.user = u
                      /\ lastSave.date_of_birth = dob
                      /\ lastSave.height = height
                      /\ lastSave.weight = weight]
    /\ UNCHANGED <<today, users, nextId, reqVars, calc>>

\* calculate_bmi applied to the height and weight at hand.
ApplyBmi ==
    /\ calc.fn = "input"
    /\ calc' = [fn |-> "calculate_bmi", height |-> calc.height,
                weight |-> calc.weight,
                bmi |-> calculate_bmi(calc.height, calc.weight)]
    /\ UNCHANGED <<today, users, nextId, profiles, reqVars, lastSave>>

\* ------------------------------------------------------- specifications
\* Account creation: concurrent requests, identity deletions, the clock.
Next ==
    \/ \E p \in Procs, payload \in RequestPayloads : Submit(p, payload)
    \/ \E p \in Procs : Validate(p)
    \/ \E p \in Procs, h \in Handles : GenerateStep(p, h)
    \/ \E p \in Procs : CreateUser(p)
    \/ \E p \in Procs : CreateProfile(p)
    \/ \E p \in Procs : Return(p)
    \/ \E u \in users : DeleteUser(u)
    \/ Tick

Spec == Init /\ [][Next]_vars

\* The draws are random: a handle that is free again and again is, sooner or
\* later, drawn while it is free.
Fairness ==
    \A p \in Procs, h \in Handles :
        SF_vars(GenerateStep(p, h) /\ ~UsernameExists(users, h))

\* The handle loop under fair draws: the same requests, every one carrying
\* a payload that passes validation, and identity deletions.
LivePayloads == { Payload(FALSE, -364, GoodContact, 180, 75) }

LiveNext ==
    \/ \E p \in Procs, payload \in LivePayloads : Submit(p, payload)
    \/ \E p \in Procs : Validate(p)
    \/ \E p \in Procs, h \in Handles : GenerateStep(p, h)
    \/ \E p \in Procs : CreateUser(p)
    \/ \E p \in Procs : CreateProfile(p)
    \/ \E p \in Procs : Return(p)
    \/ \E u \in users : DeleteUser(u)

LiveSpec == Init /\ [][LiveNext]_vars /\ Fairness

\* Profile persistence: identity rows are there (each left by an account
\* creation), ORM callers save profiles, identities are deleted, days pass.
PopulatedUsers == { [id |-> i, username |-> i] : i \in Owners }

ProfileInit ==
    /\ today = 0
    /\ users = PopulatedUsers
    /\ nextId = Cardinality(Owners) + 1
    /\ profiles = {}
    /\ pc = [p \in Procs |-> "idle"]
    /\ data = [p \in Procs |-> NoData]
    /\ username = [p \in Procs |-> NoHandle]
    /\ newUser = [p \in Procs |-> NoUser]
    /\ result = [p \in Procs |-> "none"]
    /\ errors = [p \in Procs |-> {}]
    /\ lastSave = NoSave
    /\ calc = NoCalc

ProfileNext ==
    \/ \E u \in Owners, pk \in BOOLEAN, dob \in SaveDates,
          height \in SaveHeights, weight \in SaveWeights,
          given \in Supplied, args \in SaveArgs :
            SaveProfile(u, pk, dob, height, weight, given.age, given.bmi, args)
    \/ \E u \in users : DeleteUser(u)
    \/ Tick

ProfileSpec == ProfileInit /\ [][ProfileNext]_vars

\* The pure computation swept over its inputs: a profile's height and
\* weight are drawn, calculate_bmi is applied.
FnInit ==
    /\ today = 0
    /\ users = {}
    /\ nextId = 1
    /\ profiles = {}
    /\ pc = [p \in Procs |-> "idle"]
    /\ data = [p \in Procs |-> NoData]
    /\ username = [p \in Procs |-> NoHandle]
    /\ newUser = [p \in Procs |-> NoUser]
    /\ result = [p \in Procs |-> "none"]
    /\ errors = [p \in Procs |-> {}]
    /\ lastSave = NoSave
    /\ calc \in { [fn |-> "input", height |-> h, weight |-> w, bmi |-> 0] :
                     h \in 1 .. MaxHeight, w \in 1 .. MaxWeight }

FnNext == ApplyBmi

FnSpec == FnInit /\ [][FnNext]_vars

\* ------------------------------------------------------------ properties
AllTaken == \A h \in Handles : UsernameExists(users, h)

HasUserRow(id) == \E u \in users : u.id = id
HasProfileRow(id) == \E r \in profiles : r.user = id

\* C1: no two coexisting identity rows share a handle, whatever the
\* interleaving of the requests' draw, existence check and insert; of two
\* requests that pass the check with the same handle at most one inserts.
C1_UniqueHandles ==
    \A u1 \in users, u2 \in users : u1.username = u2.username => u1 = u2

\* Two requests drew the same handle and both passed the check; one inserted
\* its row, the other's insert was refused.
C1_Witness ==
    \E p \in Procs, q \in Procs :
        /\ p # q
        /\ pc[p] = "done" /\ result[p] = "IntegrityError"
        /\ username[p] = username[q]
        /\ newUser[q] # NoUser
        /\ [id |-> newUser[q], username |-> username[q]] \in users

\* C2 (as claimed): once an invocation has ended, the identity row it
\* inserted and a profile row for it are both persisted or both absent.
C2_AtomicCreation ==
    \A p \in Procs :
        pc[p] = "done" => (HasUserRow(newUser[p]) <=> HasProfileRow(newUser[p]))

\* The field rules, read off the payload.
RuleViolations(d, now) ==
    (IF d.date_of_birth >= now THEN {"date_of_birth"} ELSE {})
        \cup (IF d.height <= 0 THEN {"height"} ELSE {})
        \cup (IF d.weight <= 0 THEN {"weight"} ELSE {})
        \cup (IF Len(d.contact_number) = 10
                 /\ \A i \in 1 .. Len(d.contact_number) :
                        d.contact_number[i] \in Digits
              THEN {} ELSE {"contact_number"})

\* C3: a payload that violates a field rule ends the request at validation
\* with an error keyed to exactly the violated fields, and neither table
\* changes: no handle is inserted, no profile written, then or later.
C3_InvalidPayloadWritesNothing ==
    /\ [][\A p \in Procs :
            (pc[p] = "validate" /\ pc'[p] # "validate"
                /\ RuleViolations(data[p], today) # {})
            => /\ pc'[p] = "done"
               /\ result'[p] = "ValidationError"
               /\ errors'[p] = RuleViolations(data[p], today)
               /\ users' = users /\ profiles' = profiles /\ nextId' = nextId
         ]_vars
    /\ [](\A p \in Procs :
            result[p] = "ValidationError"
            => pc[p] = "done" /\ newUser[p] = NoUser)

\* A request was refused on every field rule at once and nothing is stored.
C3_Witness ==
    \E p \in Procs :
        /\ result[p] = "ValidationError"
        /\ errors[p] = {"date_of_birth", "height", "weight", "contact_number"}
        /\ users = {} /\ profiles = {}

\* Rows a step wrote: present afterwards, not before.
Written == profiles' \ profiles

\* C4 (as claimed): every row a save writes holds the age of its
\* date_of_birth at the day of the save and the bmi of its height and weight.
C4_PersistedDerived ==
    [][\A r \in Written :
          /\ r.age = calculate_age(r.date_of_birth, today)
          /\ r.bmi = calculate_bmi(r.height, r.weight)
      ]_vars

\* C5: every persisted profile row refers to an identity row that exists;
\* deleting the identity row deletes its profile row.
C5_NoOrphanProfile ==
    \A r \in profiles : \E u \in users : u.id = r.user

\* A profile was saved for an identity row which has since been deleted, and
\* the profile row is gone with it.
C5_Witness ==
    /\ lastSave.outcome = "saved"
    /\ ~HasUserRow(lastSave.user)
    /\ ~HasProfileRow(lastSave.user)

\* C6: validation keys an error to date_of_birth exactly when the date is
\* today or later, today being the date at the time of validation.
C6_DateOfBirthInPast ==
    [][\A p \in Procs :
          (pc[p] = "validate" /\ pc'[p] # "validate")
          => (("date_of_birth" \in errors'[p])
                <=> data[p].date_of_birth >= today)
      ]_vars

\* A date_of_birth equal to today was refused.
C6_Witness ==
    \E p \in Procs :
        /\ pc[p] = "done"
        /\ data[p].date_of_birth = today
        /\ errors[p] = {"date_of_birth"}

\* C7: for a date_of_birth before today a save assigns the age a with
\* 365 a <= days < 365 (a + 1), days = today - date_of_birth, which is not
\* negative; and no row whose date_of_birth is in the past has a negative age.
C7_AgeIsFloorOfDays ==
    /\ (lastSave.user # NoUser /\ lastSave.date_of_birth < lastSave.today)
       => LET a == lastSave.age[1]
              days == lastSave.today - lastSave.date_of_birth
          IN  /\ a >= 0
              /\ DaysPerYear * a <= days
              /\ days < DaysPerYear * (a + 1)
    /\ \A r \in profiles : r.date_of_birth < today => r.age >= 0

\* A profile born 365 days ago was saved and is stored with age 1.
C7_Witness ==
    /\ lastSave.outcome = "saved"
    /\ lastSave.today - lastSave.date_of_birth = DaysPerYear
    /\ lastSave.age = <<1>>
    /\ \E r \in profiles : r.user = lastSave.user /\ r.age = 1

\* C8: for height, weight > 0 calculate_bmi is weight / (height / 100)^2 to
\* the nearest hundredth (so within 0.01 of it); 180 cm and 75 kg give 23.15.
C8_BmiRounded ==
    calc.fn = "calculate_bmi"
    => LET h2 == calc.height * calc.height
           exact == calc.weight * 1000000
           diff == calc.bmi * h2 - exact
       IN  /\ 2 * diff <= h2
           /\ 2 * diff >= 0 - h2
           /\ (calc.height = 180 /\ calc.weight = 75 => calc.bmi = 2315)

\* calculate_bmi was applied to 180 cm and 75 kg.
C8_Witness ==
    calc.fn = "calculate_bmi" /\ calc.height = 180 /\ calc.weight = 75

\* The rows of the record the last save was made on, before and after a step.
SameDerived ==
    \A r \in profiles, w \in profiles' :
        (r.user = lastSave'.user /\ w.user = lastSave'.user)
        => (w.age = r.age /\ w.bmi = r.bmi)

C10_UnboundedRetry ==
    /\ \A p \in Procs :
          (pc[p] = "generate") ~> (pc[p] = "create_user" \/ AllTaken)
    /\ [][\A p \in Procs :
            pc[p] = "generate"
            => /\ pc'[p] \in {"generate", "create_user"}
               /\ pc'[p] = "create_user"
                  => ~UsernameExists(users, username'[p])
               /\ AllTaken => pc'[p] = "generate"
         ]_vars

\* Every handle is taken and a request has drawn one and is still looping.
C10_Witness ==
    \E p \in Procs :
        pc[p] = "generate" /\ username[p] # NoHandle /\ AllTaken

====
